---- MODULE Spec2Model ----
(***************************************************************************)
(* Kalacam-Backend: facial-identity registry (FastAPI + SQLAlchemy).       *)
(* The model covers the identity table, the image volume, the in-memory    *)
(* token set and the request handlers of src/main.py, each handler split   *)
(* at its accesses to shared state (a query, a commit, a file operation),  *)
(* behind the audit middleware of src/middleware/historial_middleware.py.  *)
(*                                                                         *)
(* Strings are sequences of one-character strings, so that strip(),        *)
(* lower(), len() and the e-mail regular expression are computed.          *)
(* Embeddings are integer vectors; cosine distances are compared exactly   *)
(* (the code compares IEEE doubles; rounding is not modelled).             *)
(* Every SQL statement acts atomically on the committed table.             *)
(***************************************************************************)
EXTENDS Integers, Sequences, FiniteSets, TLC

\* ------------------------------------------------------------------ bounds
\* files the image volume accepts over a run (one uuid4() name each); a
\* further subir_imagen fails.  Hence also the records ever inserted.
MaxArchivos == 2
\* distinct values random.randint yields in the runs of the token service
MaxTokens == 4

\* ------------------------------------------------------- program constants
\* UMBRAL_SIMILITUD = 0.37 = UmbralNum / UmbralDen
UmbralNum == 37
UmbralDen == 100
\* len(nombre) > 100
MaxLongitud == 100
\* random.randint(100000, 999999)
TokenMin == 100000

Procs == {1, 2}

\* ----------------------------------------------------------------- strings
ESPACIO == " "
PalabraChars == {"a", "b", "c", "d", "l", "m", "n", "p", "x", "z", "A"}

\* str.lower() on the model's alphabet
LowerChar(c) == IF c = "A" THEN "a" ELSE c
Lower(s) == [i \in 1..Len(s) |-> LowerChar(s[i])]

RECURSIVE LStrip(_)
LStrip(s) == IF s # <<>> /\ Head(s) = ESPACIO THEN LStrip(Tail(s)) ELSE s

RECURSIVE RStrip(_)
RStrip(s) ==
    IF s # <<>> /\ s[Len(s)] = ESPACIO THEN RStrip(SubSeq(s, 1, Len(s) - 1)) ELSE s

\* str.strip()
Strip(s) == RStrip(LStrip(s))

\* re.match(r"^[\w\.-]+@[\w\.-]+\.\w+$", email)
PatronEmail(s) ==
    \E i, j \in 1..Len(s) :
        /\ 1 < i /\ i + 1 < j /\ j < Len(s)
        /\ s[i] = "@"
        /\ s[j] = "."
        /\ \A k \in 1..(i - 1) : s[k] \in PalabraChars \cup {".", "-"}
        /\ \A k \in (i + 1)..(j - 1) : s[k] \in PalabraChars \cup {".", "-"}
        /\ \A k \in (j + 1)..Len(s) : s[k] \in PalabraChars

\* str(n) for n >= 0, as a sequence of digit characters
Digito(d) == <<"0", "1", "2", "3", "4", "5", "6", "7", "8", "9">>[d + 1]

RECURSIVE StrInt(_)
StrInt(n) == IF n < 10 THEN <<Digito(n)>> ELSE Append(StrInt(n \div 10), Digito(n % 10))

\* -------------------------------------------------------------- embeddings
Dot(a, b) == a[1] * b[1] + a[2] * b[2] + a[3] * b[3]

\* scipy cosine(a, b) < UMBRAL_SIMILITUD, i.e. 1 - a.b/(|a||b|) < Num/Den,
\* i.e. a.b/(|a||b|) > (Den - Num)/Den, squared on the positive side.
DistanciaMenorQueUmbral(a, b) ==
    /\ Dot(a, b) > 0
    /\ UmbralDen * UmbralDen * Dot(a, b) * Dot(a, b)
         > (UmbralDen - UmbralNum) * (UmbralDen - UmbralNum) * Dot(a, a) * Dot(b, b)

\* cosine(q, a) < cosine(q, b): a is strictly nearer to q than b is,
\* i.e. q.a/|a| > q.b/|b|
DistanciaMenor(q, a, b) ==
    LET x == Dot(q, a)
        y == Dot(q, b)
    IN  IF x >= 0 /\ y < 0 THEN TRUE
        ELSE IF x < 0 /\ y >= 0 THEN FALSE
        ELSE IF x >= 0 THEN x * x * Dot(b, b) > y * y * Dot(a, a)
        ELSE x * x * Dot(b, b) < y * y * Dot(a, a)

\* ------------------------------------------------------------------ inputs
\* Form values a client can send.  FastAPI reads an empty form value as a
\* missing one, so the empty string never reaches a handler.
BLANCO == <<" ">>
ANA_ESP == <<" ", "a", "n", "a">>
PAZ == <<"p", "a", "z">>
LARGO == [i \in 1..(MaxLongitud + 1) |-> "x"]
EMAIL_MAL == <<"m", "a", "l">>
EMAIL_A == <<"a", "@", "b", ".", "c">>
EMAIL_A_MAYUS == <<"A", "@", "b", ".", "c">>
EMAIL_D == <<"d", "@", "b", ".", "c">>

\* (nombre, apellido, email) that pass the field checks of crearUsuario
FormulariosValidos == {<<ANA_ESP, PAZ, e>> : e \in {EMAIL_A, EMAIL_A_MAYUS, EMAIL_D}}
\* and that fail one of them, the last one two of them
FormulariosInvalidos ==
    {<<BLANCO, PAZ, EMAIL_A>>, <<ANA_ESP, BLANCO, EMAIL_A>>, <<LARGO, PAZ, EMAIL_A>>,
     <<ANA_ESP, LARGO, EMAIL_A>>, <<ANA_ESP, PAZ, BLANCO>>, <<ANA_ESP, PAZ, EMAIL_MAL>>,
     <<BLANCO, PAZ, EMAIL_MAL>>}

\* image bytes (opaque) and the uploads (content type, bytes) of the model
Subidas ==
    {<<"image/jpeg", "caraA">>, <<"image/png", "caraB">>, <<"image/jpeg", "caraM">>,
     <<"image/jpeg", "sin_rostro">>, <<"text/plain", "caraA">>}
SIN_SUBIDA == <<"", "">>

\* The embedding provider, DeepFace.represent(..., model_name="Facenet"): a
\* fixed vector per face, ValueError when no face is detected.
\* caraA-caraB are at cosine distance 0.5; caraM is at 0.18 of both.
DeepFaceRepresent(contenido) ==
    CASE contenido = "caraA" -> [tipo |-> "ok", embedding |-> <<1, 1, 0>>]
      [] contenido = "caraB" -> [tipo |-> "ok", embedding |-> <<1, 0, 1>>]
      [] contenido = "caraM" -> [tipo |-> "ok", embedding |-> <<1, 1, 1>>]
      [] OTHER -> [tipo |-> "ValueError", embedding |-> <<>>]

\* the random token of the model, and a string that is never issued
TOKEN == StrInt(TokenMin)
TOKEN_FALSO == <<"x">>
\* no Authorization header, or one that is not "Bearer <token>"
SIN_CABECERA == <<>>
\* the values generar_token draws in the runs of the token service
Tokens == {StrInt(TokenMin + k) : k \in 0..(MaxTokens - 1)}

\* --------------------------------------------------------------- responses
Respuesta(status, detail) == [status |-> status, detail |-> detail]
SinRespuesta == Respuesta(0, "")
OK == Respuesta(200, "ok")

\* ---------------------------------------------------------- validarRostro
\* result: [r |-> response (status 0 when it returns), embedding |-> list,
\* represent |-> the calls of DeepFace.represent it made]
validarRostro(contenido) ==
    IF contenido = ""
    THEN [r |-> Respuesta(400, "No se envio contenido de imagen"), embedding |-> <<>>,
          represent |-> 0]
    ELSE LET resultado == DeepFaceRepresent(contenido)
         IN  IF resultado.tipo = "ValueError"
             THEN [r |-> Respuesta(400, "No se detecto ningun rostro"),
                   embedding |-> <<>>, represent |-> 1]
             ELSE IF resultado.tipo # "ok" \/ Len(resultado.embedding) = 0
             THEN [r |-> Respuesta(500, "Error procesando la imagen"),
                   embedding |-> <<>>, represent |-> 1]
             ELSE [r |-> SinRespuesta, embedding |-> resultado.embedding,
                   represent |-> 1]

\* ------------------------------------------------- validarRostroDuplicado
\* a duplicate only when the embeddings are identical
validarRostroDuplicadoIdentico(usuarios, embedding, excluir_usuario_id) ==
    \E i \in 1..Len(usuarios) :
        /\ ~(excluir_usuario_id # 0 /\ usuarios[i].id = excluir_usuario_id)
        /\ usuarios[i].embedding = embedding

\* the loop stops one row short
validarRostroDuplicadoSinUltimo(usuarios, embedding, excluir_usuario_id) ==
    \E i \in 1..(Len(usuarios) - 1) :
        /\ ~(excluir_usuario_id # 0 /\ usuarios[i].id = excluir_usuario_id)
        /\ usuarios[i].embedding # <<>>
        /\ DistanciaMenorQueUmbral(embedding, usuarios[i].embedding)

\* TRUE when the loop raises HTTPException 409.  excluir_usuario_id = 0
\* stands for None (both are falsy in the code's test).
validarRostroDuplicado(usuarios, embedding, excluir_usuario_id) ==
    \E i \in 1..Len(usuarios) :
        /\ ~(excluir_usuario_id # 0 /\ usuarios[i].id = excluir_usuario_id)
        /\ usuarios[i].embedding # <<>>
        /\ DistanciaMenorQueUmbral(embedding, usuarios[i].embedding)

\* ------------------------------------------------ crearUsuario, validation
\* the checks of crearUsuario before it touches the database, in order
validarCampos(nombre, apellido, email, embedding) ==
    IF nombre = <<>> \/ Strip(nombre) = <<>>
    THEN Respuesta(400, "El nombre no puede estar vacio")
    ELSE IF apellido = <<>> \/ Strip(apellido) = <<>>
    THEN Respuesta(400, "El apellido no puede estar vacio")
    ELSE IF Len(nombre) > MaxLongitud \/ Len(apellido) > MaxLongitud
    THEN Respuesta(400, "El nombre o apellido es demasiado largo")
    ELSE IF email = <<>> \/ Strip(email) = <<>>
    THEN Respuesta(400, "El email no puede estar vacio")
    ELSE IF ~PatronEmail(email)
    THEN Respuesta(400, "El email no tiene un formato valido")
    ELSE IF embedding = <<>>
    THEN Respuesta(400, "Embedding invalido")
    ELSE SinRespuesta

\* ----------------------------------------------------------- compararRostro
\* the loop with the comparison the wrong way round: keeps the farthest
RECURSIVE mejorIndiceMasLejano(_, _, _)
mejorIndiceMasLejano(usuarios, consulta, n) ==
    IF n = 0 THEN 0
    ELSE LET previo == mejorIndiceMasLejano(usuarios, consulta, n - 1)
         IN  IF usuarios[n].embedding = <<>> THEN previo
             ELSE IF previo = 0 THEN n
             ELSE IF DistanciaMenor(consulta, usuarios[previo].embedding,
                                    usuarios[n].embedding)
             THEN n
             ELSE previo

\* the loop with <= for <: among equal distances the last one wins
RECURSIVE mejorIndiceUltimo(_, _, _)
mejorIndiceUltimo(usuarios, consulta, n) ==
    IF n = 0 THEN 0
    ELSE LET previo == mejorIndiceUltimo(usuarios, consulta, n - 1)
         IN  IF usuarios[n].embedding = <<>> THEN previo
             ELSE IF previo = 0 THEN n
             ELSE IF ~DistanciaMenor(consulta, usuarios[previo].embedding,
                                     usuarios[n].embedding)
             THEN n
             ELSE previo

\* the loop of compararRostro over usuarios[1..n]: index of usuario_reconocido
\* (0 for None); menor_distancia is the distance to that user, inf when 0
RECURSIVE mejorIndice(_, _, _)
mejorIndice(usuarios, consulta, n) ==
    IF n = 0 THEN 0
    ELSE LET previo == mejorIndice(usuarios, consulta, n - 1)
         IN  IF usuarios[n].embedding = <<>> THEN previo
             ELSE IF previo = 0 THEN n
             ELSE IF DistanciaMenor(consulta, usuarios[n].embedding,
                                    usuarios[previo].embedding)
             THEN n
             ELSE previo

\* compararRostro without the test for an empty table
compararRostroSinVacio(usuarios, consulta) ==
    LET m == mejorIndice(usuarios, consulta, Len(usuarios))
        id == IF m = 0 THEN 0 ELSE usuarios[m].id
    IN  IF m # 0 /\ DistanciaMenorQueUmbral(consulta, usuarios[m].embedding)
        THEN [r |-> SinRespuesta, nombre |-> usuarios[m].nombre, reconocido |-> id]
        ELSE [r |-> SinRespuesta, nombre |-> <<>>, reconocido |-> id]

\* compararRostro without the test against UMBRAL_SIMILITUD: the nearest
\* user is returned whatever its distance
compararRostroSinUmbral(usuarios, consulta) ==
    IF Len(usuarios) = 0
    THEN [r |-> Respuesta(404, "No hay usuarios registrados"), nombre |-> <<>>,
          reconocido |-> 0]
    ELSE LET m == mejorIndice(usuarios, consulta, Len(usuarios))
             id == IF m = 0 THEN 0 ELSE usuarios[m].id
         IN  IF m # 0
             THEN [r |-> SinRespuesta, nombre |-> usuarios[m].nombre, reconocido |-> id]
             ELSE [r |-> SinRespuesta, nombre |-> <<>>, reconocido |-> id]

\* compararRostro after the embedding is known: [r |-> 404 or none,
\* nombre |-> the name returned, <<>> for None,
\* reconocido |-> id of the local usuario_reconocido after the loop, 0 for None]
compararRostro(usuarios, consulta) ==
    IF Len(usuarios) = 0
    THEN [r |-> Respuesta(404, "No hay usuarios registrados"), nombre |-> <<>>,
          reconocido |-> 0]
    ELSE LET m == mejorIndice(usuarios, consulta, Len(usuarios))
             id == IF m = 0 THEN 0 ELSE usuarios[m].id
         IN  IF m # 0 /\ DistanciaMenorQueUmbral(consulta, usuarios[m].embedding)
             THEN [r |-> SinRespuesta, nombre |-> usuarios[m].nombre, reconocido |-> id]
             ELSE [r |-> SinRespuesta, nombre |-> <<>>, reconocido |-> id]

\* ---------------------------------------------------------- image volume
obtener_extension_desde_content_type(content_type) ==
    IF content_type = "image/png" THEN "png" ELSE "jpg"

\* "usuarios/<uuid>.<extension>"
Ruta(uuid, extension) == [uuid |-> uuid, ext |-> extension]
SinRuta == Ruta(0, "")

\* ------------------------------------------------------------------- state
VARIABLES
    usuarios,        \* table "usuarios": rows in primary-key (insertion) order
    nextId,          \* its AUTO_INCREMENT counter
    archivos,        \* the image volume: the files [ruta, contenido]
    nextUuid,        \* the next fresh uuid4() of subir_imagen
    tokens_validos,  \* service/token_service.py: the module-level set
    req,             \* the request each worker is handling, and where it stands
    historial_disponible  \* the table "historial" accepts a write

vars == <<usuarios, nextId, archivos, nextUuid, tokens_validos, req,
          historial_disponible>>

\* a worker with no request; the fields are the handler's parameters
\* (<<>>, "", 0 for None), its locals and at the end its response r;
\* represent counts its calls of the embedding provider, retorno is the value
\* a token-service function returned, historial the accion of the audit row
\* written for it and enviado the response the client received; antes is
\* the row as update_usuario found it, before actualizar_usuario
Idle ==
    [op |-> "", pc |-> "idle",
     nombre |-> <<>>, apellido |-> <<>>, email |-> <<>>,
     content_type |-> "", contenido |-> "",
     usuario_id |-> 0, token |-> <<>>,
     embedding |-> <<>>, ruta |-> SinRuta, imagen_ant |-> SinRuta, reconocido |-> 0,
     antes |-> <<>>,
     represent |-> 0, retorno |-> "",
     r |-> SinRespuesta, historial |-> "", enviado |-> SinRespuesta]

Init ==
    /\ usuarios = <<>>
    /\ nextId = 1
    /\ archivos = {}
    /\ nextUuid = 1
    /\ tokens_validos = {}
    /\ req = [p \in Procs |-> Idle]
    /\ historial_disponible = TRUE

EnCurso(p) == req[p].pc \notin {"idle", "done"}

\* the volume still accepts a file
HayEspacio == nextUuid <= MaxArchivos

\* an exception no handler catches: ServerErrorMiddleware, outside the
\* audit middleware, answers 500
NO_CONTROLADA == Respuesta(500, "Internal Server Error")

\* send_wrapper: the accion of the audit row, from endpoint and method
Accion(op) ==
    CASE op = "subirUsuario" -> "Creacion de usuario"
      [] op = "compararCara" -> "Intento de acceso via rostro"
      [] op \in {"listarUsuarios", "getUsuario"} -> "Consulta de usuario(s)"
      [] op = "updateUsuario" -> "Actualizacion de usuario"
      [] op = "deleteUsuario" -> "Eliminacion de usuario"
      [] op = "listarHistorial" -> "Consulta de historial"
      [] OTHER -> "Request a endpoint"

\* HistorialMiddleware.__call__ around a handler that has ended (q.pc is
\* "done", q.r its response): at http.response.start send_wrapper calls
\* crear_historial, then sends.  An uncaught exception of the handler
\* passes through without a response start; one of crear_historial leaves
\* send_wrapper before the response is sent.
HistorialMiddleware(q) ==
    IF q.pc # "done" THEN q
    ELSE IF q.r = NO_CONTROLADA THEN [q EXCEPT !.enviado = NO_CONTROLADA]
    ELSE IF historial_disponible
    THEN [q EXCEPT !.historial = Accion(q.op), !.enviado = q.r]
    ELSE [q EXCEPT !.enviado = NO_CONTROLADA]

\* The first free worker p takes a new request; the responses of finished
\* requests are kept only until the next request arrives.
Recibe(p, nuevo) ==
    /\ ~EnCurso(p)
    /\ \A q \in Procs : q < p => EnCurso(q)
    /\ req' = [q \in Procs |-> IF q = p THEN HistorialMiddleware(nuevo)
                               ELSE IF EnCurso(q) THEN req[q] ELSE Idle]
    /\ UNCHANGED historial_disponible

Sigue(p, pc, cambios) ==
    /\ req' = [req EXCEPT ![p] = HistorialMiddleware([k \in DOMAIN Idle |->
                   IF k = "pc" THEN pc
                   ELSE IF k \in DOMAIN cambios THEN cambios[k] ELSE req[p][k]])]
    /\ UNCHANGED historial_disponible

Termina(p, r) == Sigue(p, "done", [r |-> r])

\* os.path.exists(ruta_completa)
ExisteArchivo(ruta) == \E a \in archivos : a.ruta = ruta

\* subir_imagen, when the write succeeds: open(ruta_completa, 'wb').write
GuardarArchivo(ruta, contenido) ==
    {a \in archivos : a.ruta # ruta} \cup {[ruta |-> ruta, contenido |-> contenido]}

\* eliminar_imagen: nothing for a falsy path, else os.remove when it exists
eliminar_imagen(ruta) ==
    IF ruta = SinRuta THEN archivos ELSE {a \in archivos : a.ruta # ruta}

\* ------------------------------------------------------ POST /subirUsuario
\* the field checks before the embedding is extracted
subirUsuarioLocalCamposPrimero(nombre, apellido, email, content_type, contenido) ==
    IF content_type \notin {"image/jpeg", "image/png"}
    THEN [r |-> Respuesta(400, "Tipo de archivo no permitido"), embedding |-> <<>>,
          represent |-> 0]
    ELSE LET c == validarCampos(nombre, apellido, email, <<0>>)
         IN  IF c # SinRespuesta THEN [r |-> c, embedding |-> <<>>, represent |-> 0]
             ELSE validarRostro(contenido)

\* the embedding is extracted before the content type is looked at
subirUsuarioLocalRostroPrimero(nombre, apellido, email, content_type, contenido) ==
    LET v == validarRostro(contenido)
    IN  IF content_type \notin {"image/jpeg", "image/png"}
        THEN [r |-> Respuesta(400, "Tipo de archivo no permitido"), embedding |-> <<>>,
              represent |-> v.represent]
        ELSE IF v.r # SinRespuesta THEN v
        ELSE [r |-> validarCampos(nombre, apellido, email, v.embedding),
              embedding |-> v.embedding, represent |-> v.represent]

\* subir_usuario up to the first database access: content type, validarRostro,
\* then the field checks of crearUsuario
subirUsuarioLocal(nombre, apellido, email, content_type, contenido) ==
    IF content_type \notin {"image/jpeg", "image/png"}
    THEN [r |-> Respuesta(400, "Tipo de archivo no permitido"), embedding |-> <<>>,
          represent |-> 0]
    ELSE LET v == validarRostro(contenido)
         IN  IF v.r # SinRespuesta THEN v
             ELSE [r |-> validarCampos(nombre, apellido, email, v.embedding),
                   embedding |-> v.embedding, represent |-> v.represent]

SubirUsuario(p, nombre, apellido, email, subida) ==
    LET l == subirUsuarioLocal(nombre, apellido, email, subida[1], subida[2])
        entrada == [Idle EXCEPT !.op = "subirUsuario", !.nombre = nombre,
                                !.apellido = apellido, !.email = email,
                                !.content_type = subida[1], !.contenido = subida[2],
                                !.represent = l.represent]
    IN  /\ Recibe(p, IF l.r # SinRespuesta
                     THEN [entrada EXCEPT !.pc = "done", !.r = l.r]
                     ELSE [entrada EXCEPT !.pc = "validar_duplicado",
                                          !.embedding = l.embedding])
        /\ UNCHANGED <<usuarios, nextId, archivos, nextUuid, tokens_validos>>

\* crearUsuario: validarRostroDuplicado(db, embedding)
CrearValidarDuplicado(p) ==
    /\ req[p].op = "subirUsuario" /\ req[p].pc = "validar_duplicado"
    /\ IF validarRostroDuplicado(usuarios, req[p].embedding, 0)
       THEN Termina(p, Respuesta(409, "Este rostro ya esta registrado."))
       ELSE Sigue(p, "subir_imagen", <<>>)
    /\ UNCHANGED <<usuarios, nextId, archivos, nextUuid, tokens_validos>>

\* crearUsuario: subir_imagen(imagen, extension) writes the file
CrearSubirImagen(p) ==
    /\ req[p].op = "subirUsuario" /\ req[p].pc = "subir_imagen"
    /\ HayEspacio
    /\ LET ruta == Ruta(nextUuid, obtener_extension_desde_content_type(req[p].content_type))
       IN  /\ archivos' = GuardarArchivo(ruta, req[p].contenido)
           /\ nextUuid' = nextUuid + 1
           /\ Sigue(p, "insertar", [ruta |-> ruta])
    /\ UNCHANGED <<usuarios, nextId, tokens_validos>>

\* the failure of subir_imagen is ignored and the record is inserted
CrearSubirImagenFallaSigue(p) ==
    /\ req[p].op = "subirUsuario" /\ req[p].pc = "subir_imagen"
    /\ Sigue(p, "insertar", <<>>)
    /\ UNCHANGED <<usuarios, nextId, archivos, nextUuid, tokens_validos>>

\* crearUsuario: subir_imagen raises (the volume cannot be written)
CrearSubirImagenFalla(p) ==
    /\ req[p].op = "subirUsuario" /\ req[p].pc = "subir_imagen"
    /\ Termina(p, Respuesta(400, "Error al subir imagen"))
    /\ UNCHANGED <<usuarios, nextId, archivos, nextUuid, tokens_validos>>

EmailEnUso(email, excepto_id) ==
    \E i \in 1..Len(usuarios) : usuarios[i].id # excepto_id /\ usuarios[i].email = email

\* the insert runs the duplicate check again, in its own transaction
CrearInsertarRevalida(p) ==
    /\ req[p].op = "subirUsuario" /\ req[p].pc = "insertar"
    /\ IF validarRostroDuplicado(usuarios, req[p].embedding, 0)
       THEN /\ Termina(p, Respuesta(409, "Este rostro ya esta registrado."))
            /\ UNCHANGED <<usuarios, nextId>>
       ELSE IF EmailEnUso(Lower(Strip(req[p].email)), 0)
       THEN /\ Termina(p, Respuesta(409, "El email ya esta registrado"))
            /\ UNCHANGED <<usuarios, nextId>>
       ELSE /\ usuarios' = Append(usuarios,
                               [id |-> nextId, nombre |-> Strip(req[p].nombre),
                                apellido |-> Strip(req[p].apellido),
                                email |-> Lower(Strip(req[p].email)),
                                embedding |-> req[p].embedding,
                                imagen |-> req[p].ruta])
            /\ nextId' = nextId + 1
            /\ Termina(p, OK)
    /\ UNCHANGED <<archivos, nextUuid, tokens_validos>>

\* crearUsuario: crear_usuario(db, nuevo_usuario), IntegrityError on the
\* unique e-mail column
CrearInsertar(p) ==
    /\ req[p].op = "subirUsuario" /\ req[p].pc = "insertar"
    /\ LET nuevo_usuario == [id |-> nextId,
                             nombre |-> Strip(req[p].nombre),
                             apellido |-> Strip(req[p].apellido),
                             email |-> Lower(Strip(req[p].email)),
                             embedding |-> req[p].embedding,
                             imagen |-> req[p].ruta]
       IN  IF EmailEnUso(nuevo_usuario.email, 0)
           THEN /\ Termina(p, Respuesta(409, "El email ya esta registrado"))
                /\ UNCHANGED <<usuarios, nextId>>
           ELSE /\ usuarios' = Append(usuarios, nuevo_usuario)
                /\ nextId' = nextId + 1
                /\ Termina(p, OK)
    /\ UNCHANGED <<archivos, nextUuid, tokens_validos>>

\* ------------------------------------------------------------ token service
\* every string is accepted
validar_tokenAbierto(token) == TRUE

validar_token(token) == token \in tokens_validos

\* generar_token: str(random.randint(...)), added to the set
generar_token(token) == tokens_validos \cup {token}

\* eliminar_token: tokens_validos.discard(token)
eliminar_token(token) == tokens_validos \ {token}

\* Depends(auth_required): HTTPBearer refuses a request without bearer
\* credentials (403 "Not authenticated"; 401 in recent FastAPI releases),
\* then auth_required refuses a token that validar_token does not know
auth_required(token) ==
    IF token = SIN_CABECERA THEN Respuesta(403, "Not authenticated")
    ELSE IF ~validar_token(token) THEN Respuesta(401, "Token invalido")
    ELSE SinRespuesta

\* the functions of service/token_service.py called directly; the caller
\* keeps the argument and what came back
LlamaGenerarToken(token) ==
    /\ tokens_validos' = generar_token(token)
    /\ req' = [req EXCEPT ![1] = [Idle EXCEPT !.op = "generar_token", !.pc = "done",
                                              !.token = token, !.retorno = "str"]]
    /\ UNCHANGED <<usuarios, nextId, archivos, nextUuid, historial_disponible>>

\* validar_token removes the token it has accepted
LlamaValidarTokenConsume(token) ==
    /\ tokens_validos' = tokens_validos \ {token}
    /\ req' = [req EXCEPT ![1] = [Idle EXCEPT !.op = "validar_token", !.pc = "done",
                                              !.token = token,
                                              !.retorno = IF validar_token(token)
                                                          THEN "True" ELSE "False"]]
    /\ UNCHANGED <<usuarios, nextId, archivos, nextUuid, historial_disponible>>

LlamaValidarToken(token) ==
    /\ req' = [req EXCEPT ![1] = [Idle EXCEPT !.op = "validar_token", !.pc = "done",
                                              !.token = token,
                                              !.retorno = IF validar_token(token)
                                                          THEN "True" ELSE "False"]]
    /\ UNCHANGED <<usuarios, nextId, archivos, nextUuid, tokens_validos,
                   historial_disponible>>

LlamaEliminarToken(token) ==
    /\ tokens_validos' = eliminar_token(token)
    /\ req' = [req EXCEPT ![1] = [Idle EXCEPT !.op = "eliminar_token", !.pc = "done",
                                              !.token = token, !.retorno = "None"]]
    /\ UNCHANGED <<usuarios, nextId, archivos, nextUuid, historial_disponible>>

\* ------------------------------------------------------ POST /compararCara
\* comparar_cara: content type, validarRostro, compararRostro (one query of
\* the table), then generar_token when a name came back
CompararCara(p, subida, token) ==
    LET entrada == [Idle EXCEPT !.op = "compararCara", !.content_type = subida[1],
                                !.contenido = subida[2]]
        v == validarRostro(subida[2])
        c == compararRostro(usuarios, v.embedding)
    IN  IF subida[1] \notin {"image/jpeg", "image/png"}
        THEN /\ Recibe(p, [entrada EXCEPT !.pc = "done",
                               !.r = Respuesta(400, "Tipo de archivo no permitido")])
             /\ UNCHANGED tokens_validos
        ELSE IF v.r # SinRespuesta
        THEN /\ Recibe(p, [entrada EXCEPT !.pc = "done", !.r = v.r,
                                          !.represent = v.represent])
             /\ UNCHANGED tokens_validos
        ELSE IF c.r # SinRespuesta
        THEN /\ Recibe(p, [entrada EXCEPT !.pc = "done", !.r = c.r,
                                          !.represent = v.represent,
                                          !.embedding = v.embedding])
             /\ UNCHANGED tokens_validos
        ELSE IF c.nombre # <<>>
        THEN /\ tokens_validos' = generar_token(token)
             /\ Recibe(p, [entrada EXCEPT !.pc = "done", !.r = OK, !.token = token,
                                          !.nombre = c.nombre,
                                          !.reconocido = c.reconocido,
                                          !.represent = v.represent,
                                          !.embedding = v.embedding])
        ELSE /\ Recibe(p, [entrada EXCEPT !.pc = "done",
                               !.r = Respuesta(401, "Rostro no reconocido"),
                               !.reconocido = c.reconocido,
                               !.represent = v.represent,
                               !.embedding = v.embedding])
             /\ UNCHANGED tokens_validos

\* ------------------------------------------------------- GET /generarToken
GenerarTokenPrueba(p, token) ==
    /\ tokens_validos' = generar_token(token)
    /\ Recibe(p, [Idle EXCEPT !.op = "generarToken", !.pc = "done", !.r = OK,
                              !.token = token])

\* -------------------------------------------------------------- POST /login
Login(p, token) ==
    /\ Recibe(p, [Idle EXCEPT !.op = "login", !.pc = "done", !.token = token,
                              !.r = IF validar_token(token) THEN OK
                                    ELSE Respuesta(401, "Token invalido")])
    /\ UNCHANGED tokens_validos

\* ---------------------------------------------------- PUT /usuarios/{id}
Indice(usuario_id) ==
    IF \E i \in 1..Len(usuarios) : usuarios[i].id = usuario_id
    THEN CHOOSE i \in 1..Len(usuarios) : usuarios[i].id = usuario_id
    ELSE 0

\* actualizar_usuario: setattr for every key of datos (the fields that are
\* not None)
Actualizado(u, nombre, apellido, email) ==
    [u EXCEPT !.nombre = IF nombre # <<>> THEN nombre ELSE @,
              !.apellido = IF apellido # <<>> THEN apellido ELSE @,
              !.email = IF email # <<>> THEN email ELSE @]

\* update_usuario from auth_required to validarRostro: the token, the
\* content type, actualizar_usuario (one commit), then the new embedding.
\* subida is <<"", "">> when no image is sent.
UpdateUsuario(p, usuario_id, nombre, apellido, email, subida, token) ==
    LET entrada == [Idle EXCEPT !.op = "updateUsuario", !.usuario_id = usuario_id,
                                !.nombre = nombre, !.apellido = apellido,
                                !.email = email, !.token = token,
                                !.content_type = subida[1], !.contenido = subida[2]]
        i == Indice(usuario_id)
        v == validarRostro(subida[2])
        fin(r) == Recibe(p, [entrada EXCEPT !.pc = "done", !.r = r])
        hallado == [entrada EXCEPT !.antes = usuarios[i]]
    IN  /\ IF auth_required(token) # SinRespuesta
           THEN fin(auth_required(token)) /\ UNCHANGED usuarios
           ELSE IF subida[1] # "" /\ subida[1] \notin {"image/jpeg", "image/png"}
           THEN fin(Respuesta(400, "Tipo de archivo no permitido")) /\ UNCHANGED usuarios
           ELSE IF i = 0
           THEN fin(Respuesta(404, "Usuario no encontrado")) /\ UNCHANGED usuarios
           ELSE IF email # <<>> /\ EmailEnUso(email, usuario_id)
           THEN \* IntegrityError, not caught
                fin(NO_CONTROLADA) /\ UNCHANGED usuarios
           ELSE /\ usuarios' = [usuarios EXCEPT
                                   ![i] = Actualizado(@, nombre, apellido, email)]
                /\ IF subida[1] = ""
                   THEN Recibe(p, [hallado EXCEPT !.pc = "done", !.r = OK])
                   ELSE IF v.r # SinRespuesta
                   THEN Recibe(p, [hallado EXCEPT !.pc = "done", !.r = v.r,
                                       !.represent = v.represent])
                   ELSE Recibe(p, [hallado EXCEPT !.pc = "validar_duplicado",
                                       !.embedding = v.embedding,
                                       !.represent = v.represent,
                                       !.imagen_ant = usuarios[i].imagen])
        /\ UNCHANGED <<nextId, archivos, nextUuid, tokens_validos>>

\* the duplicate check of the update without excluir_usuario_id
UpdateValidarDuplicadoSinExcluir(p) ==
    /\ req[p].op = "updateUsuario" /\ req[p].pc = "validar_duplicado"
    /\ IF validarRostroDuplicado(usuarios, req[p].embedding, 0)
       THEN Termina(p, Respuesta(409, "Este rostro ya esta registrado."))
       ELSE Sigue(p, "eliminar_anterior", <<>>)
    /\ UNCHANGED <<usuarios, nextId, archivos, nextUuid, tokens_validos>>

\* validarRostroDuplicado(db, nuevo_embedding, excluir_usuario_id=usuario_id)
UpdateValidarDuplicado(p) ==
    /\ req[p].op = "updateUsuario" /\ req[p].pc = "validar_duplicado"
    /\ IF validarRostroDuplicado(usuarios, req[p].embedding, req[p].usuario_id)
       THEN Termina(p, Respuesta(409, "Este rostro ya esta registrado."))
       ELSE Sigue(p, "eliminar_anterior", <<>>)
    /\ UNCHANGED <<usuarios, nextId, archivos, nextUuid, tokens_validos>>

\* if usuario_actualizado.imagen: eliminar_imagen(usuario_actualizado.imagen)
UpdateEliminarAnterior(p) ==
    /\ req[p].op = "updateUsuario" /\ req[p].pc = "eliminar_anterior"
    /\ archivos' = eliminar_imagen(req[p].imagen_ant)
    /\ Sigue(p, "subir_imagen", <<>>)
    /\ UNCHANGED <<usuarios, nextId, nextUuid, tokens_validos>>

\* ruta_imagen = subir_imagen(contenido, extension)
UpdateSubirImagen(p) ==
    /\ req[p].op = "updateUsuario" /\ req[p].pc = "subir_imagen"
    /\ HayEspacio
    /\ LET ruta == Ruta(nextUuid, obtener_extension_desde_content_type(req[p].content_type))
       IN  /\ archivos' = GuardarArchivo(ruta, req[p].contenido)
           /\ nextUuid' = nextUuid + 1
           /\ Sigue(p, "commit", [ruta |-> ruta])
    /\ UNCHANGED <<usuarios, nextId, tokens_validos>>

\* subir_imagen raises HTTPException 500, which update_usuario re-raises
UpdateSubirImagenFalla(p) ==
    /\ req[p].op = "updateUsuario" /\ req[p].pc = "subir_imagen"
    /\ Termina(p, Respuesta(500, "Error al guardar imagen en volumen"))
    /\ UNCHANGED <<usuarios, nextId, archivos, nextUuid, tokens_validos>>

\* the commit writes the new path and leaves the old embedding
UpdateCommitSoloImagen(p) ==
    /\ req[p].op = "updateUsuario" /\ req[p].pc = "commit"
    /\ LET i == IF \E k \in 1..Len(usuarios) : usuarios[k].id = req[p].usuario_id
                THEN CHOOSE k \in 1..Len(usuarios) : usuarios[k].id = req[p].usuario_id
                ELSE 0
       IN  IF i = 0
           THEN /\ Termina(p, Respuesta(400, "Error al procesar la nueva imagen"))
                /\ UNCHANGED usuarios
           ELSE /\ usuarios' = [usuarios EXCEPT ![i].imagen = req[p].ruta]
                /\ Termina(p, OK)
    /\ UNCHANGED <<nextId, archivos, nextUuid, tokens_validos>>

\* usuario_actualizado.imagen, .embedding = ...; db.commit(): one UPDATE of
\* the row; StaleDataError (caught as Exception) when the row is gone
UpdateCommit(p) ==
    /\ req[p].op = "updateUsuario" /\ req[p].pc = "commit"
    /\ LET i == Indice(req[p].usuario_id)
       IN  IF i = 0
           THEN /\ Termina(p, Respuesta(400, "Error al procesar la nueva imagen"))
                /\ UNCHANGED usuarios
           ELSE /\ usuarios' = [usuarios EXCEPT ![i].imagen = req[p].ruta,
                                                ![i].embedding = req[p].embedding]
                /\ Termina(p, OK)
    /\ UNCHANGED <<nextId, archivos, nextUuid, tokens_validos>>

\* ------------------------------------------------- DELETE /usuarios/{id}
\* delete_usuario: auth_required, then obtener_usuario
DeleteUsuario(p, usuario_id, token) ==
    LET entrada == [Idle EXCEPT !.op = "deleteUsuario", !.usuario_id = usuario_id,
                                !.token = token]
        i == Indice(usuario_id)
    IN  /\ Recibe(p, IF auth_required(token) # SinRespuesta
                     THEN [entrada EXCEPT !.pc = "done", !.r = auth_required(token)]
                     ELSE IF i = 0
                     THEN [entrada EXCEPT !.pc = "done",
                                          !.r = Respuesta(404, "Usuario no encontrado")]
                     ELSE [entrada EXCEPT !.pc = "eliminar_imagen",
                                          !.imagen_ant = usuarios[i].imagen])
        /\ UNCHANGED <<usuarios, nextId, archivos, nextUuid, tokens_validos>>

\* the file is left in the volume
DeleteEliminarImagenNada(p) ==
    /\ req[p].op = "deleteUsuario" /\ req[p].pc = "eliminar_imagen"
    /\ Sigue(p, "eliminar_usuario", <<>>)
    /\ UNCHANGED <<usuarios, nextId, archivos, nextUuid, tokens_validos>>

\* if usuario.imagen: eliminar_imagen(usuario.imagen)
DeleteEliminarImagen(p) ==
    /\ req[p].op = "deleteUsuario" /\ req[p].pc = "eliminar_imagen"
    /\ archivos' = eliminar_imagen(req[p].imagen_ant)
    /\ Sigue(p, "eliminar_usuario", <<>>)
    /\ UNCHANGED <<usuarios, nextId, nextUuid, tokens_validos>>

\* eliminar_usuario(db, usuario_id)
DeleteEliminarUsuario(p) ==
    /\ req[p].op = "deleteUsuario" /\ req[p].pc = "eliminar_usuario"
    /\ LET i == Indice(req[p].usuario_id)
       IN  IF i = 0
           THEN /\ Termina(p, Respuesta(404, "Usuario no encontrado"))
                /\ UNCHANGED usuarios
           ELSE /\ usuarios' = [k \in 1..(Len(usuarios) - 1) |->
                                   IF k < i THEN usuarios[k] ELSE usuarios[k + 1]]
                /\ Termina(p, OK)
    /\ UNCHANGED <<nextId, archivos, nextUuid, tokens_validos>>

\* ------------------------------------------------- the protected reads
\* listar_usuarios: auth_required, obtener_usuarios
ListarUsuarios(p, token) ==
    /\ Recibe(p, [Idle EXCEPT !.op = "listarUsuarios", !.pc = "done", !.token = token,
                              !.r = IF auth_required(token) # SinRespuesta
                                    THEN auth_required(token) ELSE OK])
    /\ UNCHANGED tokens_validos

\* get_usuario: auth_required, obtener_usuario, 404 when there is none
GetUsuario(p, usuario_id, token) ==
    /\ Recibe(p, [Idle EXCEPT !.op = "getUsuario", !.pc = "done", !.token = token,
                              !.usuario_id = usuario_id,
                              !.r = IF auth_required(token) # SinRespuesta
                                    THEN auth_required(token)
                                    ELSE IF Indice(usuario_id) = 0
                                    THEN Respuesta(404, "Usuario no encontrado")
                                    ELSE OK])
    /\ UNCHANGED tokens_validos

\* bytes of the stored file a path designates ("" when there is none)
ContenidoDe(ruta) ==
    IF ExisteArchivo(ruta) THEN (CHOOSE a \in archivos : a.ruta = ruta).contenido
    ELSE ""

\* servir_imagen: auth_required, 404 unless the file exists, else the file
ServirImagen(p, ruta, token) ==
    /\ Recibe(p, [Idle EXCEPT !.op = "servirImagen", !.pc = "done", !.token = token,
                              !.ruta = ruta,
                              !.r = IF auth_required(token) # SinRespuesta
                                    THEN auth_required(token)
                                    ELSE IF ruta = SinRuta \/ ~ExisteArchivo(ruta)
                                    THEN Respuesta(404, "Imagen no encontrada")
                                    ELSE Respuesta(200, ContenidoDe(ruta))])
    /\ UNCHANGED tokens_validos

\* listar_historial: auth_required, obtener_historial
ListarHistorial(p, token) ==
    /\ Recibe(p, [Idle EXCEPT !.op = "listarHistorial", !.pc = "done", !.token = token,
                              !.r = IF auth_required(token) # SinRespuesta
                                    THEN auth_required(token) ELSE OK])
    /\ UNCHANGED tokens_validos

\* the table "historial" stops or resumes accepting writes
CambiaHistorial ==
    /\ historial_disponible' = ~historial_disponible
    /\ UNCHANGED <<usuarios, nextId, archivos, nextUuid, tokens_validos, req>>

\* ----------------------------------------------------------- specification
Ids == 1..MaxArchivos

\* the paths subir_imagen can have returned
Rutas == {Ruta(u, e) : u \in 1..MaxArchivos, e \in {"jpg", "png"}}

SIN_DATOS == <<<<>>, <<>>, <<>>>>

\* the requests clients send when requests are handled one at a time;
\* registros: (form, upload); updates: ((nombre, apellido, email), upload, token)
Entradas ==
    [registros |-> (FormulariosValidos \X Subidas)
                     \cup (FormulariosInvalidos
                             \X {<<"image/jpeg", "caraA">>, <<"image/jpeg", "sin_rostro">>}),
     subidas |-> Subidas,
     updates |-> ({SIN_DATOS} \X ({SIN_SUBIDA} \cup Subidas) \X {TOKEN})
                 \cup ({<<BLANCO, <<>>, <<>>>>}
                         \X {SIN_SUBIDA, <<"image/jpeg", "caraM">>,
                             <<"image/jpeg", "sin_rostro">>}
                         \X {TOKEN})
                 \cup {<<<<<<>>, <<>>, EMAIL_D>>, SIN_SUBIDA, TOKEN>>,
                       <<<<BLANCO, <<>>, <<>>>>, <<"image/png", "caraB">>, TOKEN_FALSO>>,
                       <<<<PAZ, <<>>, <<>>>>, <<"text/plain", "caraA">>, TOKEN>>},
     tokens |-> {TOKEN},
     tokensAuth |-> {TOKEN, TOKEN_FALSO},
     tokensLectura |-> {TOKEN},
     rutas |-> {Ruta(1, "jpg")}]

\* the requests of the concurrent runs: valid forms, two faces 0.18 apart
EntradasConc ==
    [registros |-> {<<<<ANA_ESP, PAZ, EMAIL_A>>, <<"image/jpeg", "caraA">>>>,
                    <<<<ANA_ESP, PAZ, EMAIL_D>>, <<"image/jpeg", "caraM">>>>},
     subidas |-> {<<"image/jpeg", "caraA">>, <<"image/jpeg", "caraM">>},
     updates |-> {SIN_DATOS} \X {<<"image/jpeg", "caraA">>, <<"image/jpeg", "caraM">>}
                     \X {TOKEN},
     tokens |-> {TOKEN},
     tokensAuth |-> {TOKEN},
     tokensLectura |-> {TOKEN},
     rutas |-> {Ruta(1, "jpg")}]

\* the requests of the runs about the protected operations: two faces 0.5
\* apart, every operation with a valid token, an unknown one and no header,
\* every image path
EntradasAuth ==
    [registros |-> {<<<<ANA_ESP, PAZ, EMAIL_A>>, <<"image/jpeg", "caraA">>>>,
                    <<<<ANA_ESP, PAZ, EMAIL_D>>, <<"image/png", "caraB">>>>},
     subidas |-> {<<"image/jpeg", "caraA">>},
     updates |-> ({SIN_DATOS} \X {SIN_SUBIDA, <<"image/jpeg", "caraM">>}
                     \X {TOKEN, TOKEN_FALSO, SIN_CABECERA})
                 \cup ({<<BLANCO, <<>>, <<>>>>, <<<<>>, LARGO, <<>>>>,
                        <<<<>>, <<>>, EMAIL_MAL>>}
                         \X {SIN_SUBIDA} \X {TOKEN}),
     tokens |-> {TOKEN},
     tokensAuth |-> {TOKEN, TOKEN_FALSO, SIN_CABECERA},
     tokensLectura |-> {TOKEN, TOKEN_FALSO, SIN_CABECERA},
     rutas |-> Rutas]

\* a worker receives a request, drawn from E
Inicio(p, E) ==
    \/ \E g \in E.registros :
          SubirUsuario(p, g[1][1], g[1][2], g[1][3], g[2])
    \/ \E subida \in E.subidas, token \in E.tokens :
          /\ CompararCara(p, subida, token)
          /\ UNCHANGED <<usuarios, nextId, archivos, nextUuid>>
    \/ \E token \in E.tokens :
          /\ GenerarTokenPrueba(p, token)
          /\ UNCHANGED <<usuarios, nextId, archivos, nextUuid>>
    \/ \E token \in E.tokensAuth :
          /\ Login(p, token)
          /\ UNCHANGED <<usuarios, nextId, archivos, nextUuid>>
    \/ \E usuario_id \in Ids, u \in E.updates :
          UpdateUsuario(p, usuario_id, u[1][1], u[1][2], u[1][3], u[2], u[3])
    \/ \E usuario_id \in Ids, token \in E.tokensAuth :
          DeleteUsuario(p, usuario_id, token)
    \/ \E token \in E.tokensLectura :
          /\ ListarUsuarios(p, token)
          /\ UNCHANGED <<usuarios, nextId, archivos, nextUuid>>
    \/ \E usuario_id \in Ids, token \in E.tokensLectura :
          /\ GetUsuario(p, usuario_id, token)
          /\ UNCHANGED <<usuarios, nextId, archivos, nextUuid>>
    \/ \E ruta \in E.rutas, token \in E.tokensLectura :
          /\ ServirImagen(p, ruta, token)
          /\ UNCHANGED <<usuarios, nextId, archivos, nextUuid>>
    \/ \E token \in E.tokensLectura :
          /\ ListarHistorial(p, token)
          /\ UNCHANGED <<usuarios, nextId, archivos, nextUuid>>

\* a worker takes the next step of its handler
Paso(p) ==
    \/ CrearValidarDuplicado(p)
    \/ CrearSubirImagen(p)
    \/ CrearSubirImagenFalla(p)
    \/ CrearInsertar(p)
    \/ UpdateValidarDuplicado(p)
    \/ UpdateEliminarAnterior(p)
    \/ UpdateSubirImagen(p)
    \/ UpdateSubirImagenFalla(p)
    \/ UpdateCommit(p)
    \/ DeleteEliminarImagen(p)
    \/ DeleteEliminarUsuario(p)

Serial == \A q \in Procs : ~EnCurso(q)

\* requests handled one after the other
Next == \E p \in Procs : (Serial /\ Inicio(p, Entradas)) \/ Paso(p)
Spec == Init /\ [][Next]_vars

\* requests handled concurrently, one per worker
NextConc == \E p \in Procs : Inicio(p, EntradasConc) \/ Paso(p)
SpecConc == Init /\ [][NextConc]_vars

\* requests handled one after the other, about the protected operations
NextAuth == \E p \in Procs : (Serial /\ Inicio(p, EntradasAuth)) \/ Paso(p)
SpecAuth == Init /\ [][NextAuth]_vars

\* requests handled one after the other, the audit table failing at times
NextAudit ==
    \/ \E p \in Procs : (Serial /\ Inicio(p, EntradasConc)) \/ Paso(p)
    \/ CambiaHistorial
SpecAudit == Init /\ [][NextAudit]_vars

\* the token service alone, its functions called in any order
NextToken ==
    \E token \in Tokens :
        \/ LlamaGenerarToken(token)
        \/ LlamaValidarToken(token)
        \/ LlamaEliminarToken(token)
SpecToken == Init /\ [][NextToken]_vars

\* ================================================================== claims
Terminado(p, op) == req[p].op = op /\ req[p].pc = "done"
DUPLICATE_FACE == Respuesta(409, "Este rostro ya esta registrado.")
DUPLICATE_EMAIL == Respuesta(409, "El email ya esta registrado")

C2_InsertarNoRevalida ==
    [][\A p \in Procs :
          (/\ req[p].op = "subirUsuario" /\ req[p].pc = "insertar"
           /\ req'[p].pc = "done"
           /\ ~EmailEnUso(Lower(Strip(req[p].email)), 0))
          => /\ req'[p].r = OK
             /\ Len(usuarios') = Len(usuarios) + 1
             /\ usuarios'[Len(usuarios')].embedding = req[p].embedding]_vars

\* the registry holds two records nearer than the threshold, of different
\* e-mails, the second inserted by a registration that has just ended
C2_Witness ==
    /\ Len(usuarios) = 2
    /\ DistanciaMenorQueUmbral(usuarios[1].embedding, usuarios[2].embedding)
    /\ usuarios[1].email # usuarios[2].email
    /\ \E p \in Procs : Terminado(p, "subirUsuario") /\ req[p].r = OK

\* C3: a registration with valid fields whose image is the image of a stored
\* record (its embedding is that record's) ends at the duplicate check with
\* 409 DuplicateFace, and registry and volume are left as they were.
C3_MismaImagenRechazada ==
    [][\A p \in Procs :
          (/\ req[p].op = "subirUsuario" /\ req[p].pc = "validar_duplicado"
           /\ req'[p].pc # "validar_duplicado"
           /\ \E i \in 1..Len(usuarios) :
                 /\ usuarios[i].embedding = req[p].embedding
                 /\ ContenidoDe(usuarios[i].imagen) = req[p].contenido)
          => /\ req'[p].pc = "done"
             /\ req'[p].r = DUPLICATE_FACE
             /\ usuarios' = usuarios
             /\ archivos' = archivos]_vars

\* the second registration of the one stored image, under another e-mail, has
\* ended in 409 and the registry holds the first registration's record alone
C3_Witness ==
    \E p \in Procs :
        /\ Terminado(p, "subirUsuario")
        /\ req[p].r = DUPLICATE_FACE
        /\ Len(usuarios) = 1
        /\ ContenidoDe(usuarios[1].imagen) = req[p].contenido
        /\ usuarios[1].email # Lower(Strip(req[p].email))

\* the step in which worker p answers a POST /compararCara
PasoComparar(p) ==
    /\ req'[p].op = "compararCara" /\ req'[p].pc = "done"
    /\ req'[p] # req[p] \/ tokens_validos' # tokens_validos

\* C4: for a query whose embedding was extracted, against a non-empty
\* registry: the request is answered 200 with a token, which is then in
\* tokens_validos, exactly when some stored embedding (hence the nearest one)
\* is at distance < UMBRAL_SIMILITUD of the query; otherwise it is answered
\* 401 "Rostro no reconocido" and tokens_validos is unchanged.
C4_ReconocidoSiiCercano ==
    [][\A p \in Procs :
          (PasoComparar(p) /\ usuarios # <<>> /\ req'[p].embedding # <<>>)
          => IF \E i \in 1..Len(usuarios) :
                   DistanciaMenorQueUmbral(req'[p].embedding, usuarios[i].embedding)
             THEN /\ req'[p].r = OK
                  /\ req'[p].token # <<>>
                  /\ tokens_validos' = tokens_validos \cup {req'[p].token}
             ELSE /\ req'[p].r = Respuesta(401, "Rostro no reconocido")
                  /\ req'[p].token = <<>>
                  /\ tokens_validos' = tokens_validos]_vars

\* a face was recognized among two stored ones and its token is valid
C4_Witness ==
    \E p \in Procs :
        /\ Terminado(p, "compararCara")
        /\ req[p].r = OK
        /\ req[p].token \in tokens_validos
        /\ Len(usuarios) = 2

\* C5: the identity compararRostro ends its loop on is a nearest one to the
\* query, and the first in table order among the nearest: every earlier row
\* is strictly farther, no later row is nearer.  One is always selected when
\* the table is not empty.
C5_SeleccionaMasCercano ==
    \A p \in Procs :
        (Terminado(p, "compararCara") /\ req[p].embedding # <<>> /\ usuarios # <<>>)
        => LET m == Indice(req[p].reconocido)
               e == req[p].embedding
           IN  /\ m # 0
               /\ \A j \in 1..Len(usuarios) :
                     /\ j < m => DistanciaMenor(e, usuarios[m].embedding,
                                                usuarios[j].embedding)
                     /\ j > m => ~DistanciaMenor(e, usuarios[j].embedding,
                                                 usuarios[m].embedding)

\* E2, at distance 0.5 of the query, was inserted before E1, at distance 0,
\* and E1 was selected
C5_Witness ==
    \E p \in Procs :
        /\ Terminado(p, "compararCara")
        /\ Len(usuarios) = 2
        /\ req[p].reconocido = usuarios[2].id
        /\ usuarios[2].embedding = req[p].embedding
        /\ Dot(req[p].embedding, usuarios[1].embedding) > 0
        /\ 4 * Dot(req[p].embedding, usuarios[1].embedding)
             * Dot(req[p].embedding, usuarios[1].embedding)
           = Dot(req[p].embedding, req[p].embedding)
               * Dot(usuarios[1].embedding, usuarios[1].embedding)

SIN_USUARIOS == Respuesta(404, "No hay usuarios registrados")

C7_ParReemplazadoJunto ==
    [][\A i \in 1..Len(usuarios) : \A k \in 1..Len(usuarios') :
          (/\ usuarios'[k].id = usuarios[i].id
           /\ <<usuarios'[k].embedding, usuarios'[k].imagen>>
                # <<usuarios[i].embedding, usuarios[i].imagen>>)
          => \E p \in Procs :
                /\ req[p].op = "updateUsuario" /\ req[p].pc = "commit"
                /\ req[p].usuario_id = usuarios[i].id
                /\ usuarios'[k].embedding = req[p].embedding
                /\ usuarios'[k].imagen = req[p].ruta]_vars

\* an update with a new image has committed, replacing both fields, while
\* another request was being handled
C7_Witness ==
    \E p, q \in Procs :
        /\ p # q /\ EnCurso(q)
        /\ Terminado(p, "updateUsuario") /\ req[p].r = OK /\ req[p].ruta # SinRuta
        /\ \E i \in 1..Len(usuarios) :
              /\ usuarios[i].id = req[p].usuario_id
              /\ usuarios[i].imagen = req[p].ruta
              /\ usuarios[i].embedding = req[p].embedding
              /\ req[p].imagen_ant # req[p].ruta

\* C8: when a PUT /usuarios/{id} that carried an image has ended, whatever its
\* response, the record's imagen designates a stored file, and that file is
\* the image its embedding was extracted from.
C8_ImagenSincronizada ==
    \A p \in Procs :
        (Terminado(p, "updateUsuario") /\ req[p].content_type # ""
           /\ Indice(req[p].usuario_id) # 0)
        => LET u == usuarios[Indice(req[p].usuario_id)]
           IN  /\ ExisteArchivo(u.imagen)
               /\ validarRostro(ContenidoDe(u.imagen)).embedding = u.embedding

\* C9 as stated, for an upload of an accepted content type: a registration
\* whose name, surname or e-mail is invalid is answered with that field's
\* error, whatever the image.
C9_Original ==
    \A p \in Procs :
        (/\ Terminado(p, "subirUsuario")
         /\ req[p].content_type \in {"image/jpeg", "image/png"}
         /\ validarCampos(req[p].nombre, req[p].apellido, req[p].email, <<0>>)
              # SinRespuesta)
        => req[p].r = validarCampos(req[p].nombre, req[p].apellido, req[p].email, <<0>>)

\* the first rule a registration violates, in the order the handler applies
\* them before it reads the table
PrimerRechazo(q) ==
    IF q.content_type \notin {"image/jpeg", "image/png"}
    THEN "Tipo de archivo no permitido"
    ELSE IF q.contenido = "" THEN "No se envio contenido de imagen"
    ELSE IF DeepFaceRepresent(q.contenido).tipo = "ValueError"
    THEN "No se detecto ningun rostro"
    ELSE IF \A k \in 1..Len(q.nombre) : q.nombre[k] = ESPACIO
    THEN "El nombre no puede estar vacio"
    ELSE IF \A k \in 1..Len(q.apellido) : q.apellido[k] = ESPACIO
    THEN "El apellido no puede estar vacio"
    ELSE IF Len(q.nombre) > MaxLongitud \/ Len(q.apellido) > MaxLongitud
    THEN "El nombre o apellido es demasiado largo"
    ELSE IF \A k \in 1..Len(q.email) : q.email[k] = ESPACIO
    THEN "El email no puede estar vacio"
    ELSE IF ~PatronEmail(q.email) THEN "El email no tiene un formato valido"
    ELSE ""

FaceCercana(e) ==
    \E i \in 1..Len(usuarios) : DistanciaMenorQueUmbral(e, usuarios[i].embedding)

\* C9, amended: POST /subirUsuario reports the first violated rule in the
\* order: content type, embedding extraction, name and surname (non-empty
\* after trim, at most 100 characters as sent), e-mail (non-empty, valid),
\* duplicate face, image persistence, insert.
C9_OrdenValidacion ==
    \A p \in Procs :
        Terminado(p, "subirUsuario")
        => /\ PrimerRechazo(req[p]) # ""
              => req[p].r = Respuesta(400, PrimerRechazo(req[p]))
           /\ PrimerRechazo(req[p]) = ""
              => /\ req[p].r \in {DUPLICATE_FACE, Respuesta(400, "Error al subir imagen"),
                                  DUPLICATE_EMAIL, OK}
                 /\ req[p].r = DUPLICATE_FACE
                    <=> (req[p].r # OK /\ FaceCercana(req[p].embedding))
                 /\ req[p].r = DUPLICATE_FACE => req[p].ruta = SinRuta
                 /\ req[p].r = Respuesta(400, "Error al subir imagen")
                    => req[p].ruta = SinRuta
                 /\ req[p].r = DUPLICATE_EMAIL
                    => /\ req[p].ruta # SinRuta
                       /\ EmailEnUso(Lower(Strip(req[p].email)), 0)
                 /\ req[p].r = OK
                    => /\ usuarios # <<>>
                       /\ usuarios[Len(usuarios)].imagen = req[p].ruta
                       /\ usuarios[Len(usuarios)].embedding = req[p].embedding

\* a registration with a blank name and an image without a face was answered
\* with the embedding provider's error
C9_Witness ==
    \E p \in Procs :
        /\ Terminado(p, "subirUsuario")
        /\ req[p].nombre = BLANCO
        /\ req[p].contenido = "sin_rostro"
        /\ req[p].r = Respuesta(400, "No se detecto ningun rostro")

\* C10: after a registration answered 409 DuplicateEmail, the image file
\* persisted for that attempt is no longer in the volume.
C10_SinImagenHuerfana ==
    \A p \in Procs :
        (Terminado(p, "subirUsuario") /\ req[p].r = DUPLICATE_EMAIL)
        => ~ExisteArchivo(req[p].ruta)

\* C11: the step of POST /subirUsuario in which subir_imagen fails (the
\* request is at its upload and no file is written) ends the request with an
\* error response and leaves the table as it was; the file store too.
C11_FalloImagenAborta ==
    [][\A p \in Procs :
          (/\ req[p].op = "subirUsuario" /\ req[p].pc = "subir_imagen"
           /\ req'[p] # req[p]
           /\ archivos' = archivos)
          => /\ req'[p].pc = "done"
             /\ req'[p].r.status >= 400
             /\ usuarios' = usuarios
             /\ nextId' = nextId]_vars

\* a registration failed at its upload, one record being stored already
C11_Witness ==
    \E p \in Procs :
        /\ Terminado(p, "subirUsuario")
        /\ req[p].r = Respuesta(400, "Error al subir imagen")
        /\ req[p].ruta = SinRuta
        /\ Len(usuarios) = 1
        /\ usuarios[1].embedding # req[p].embedding

C13_ValidarNoConsume ==
    [][\A t \in Tokens :
          LET c == req'[1]
          IN  /\ (c.op = "validar_token" /\ c.token = t)
                 => /\ tokens_validos' = tokens_validos
                    /\ c.retorno = "True" <=> t \in tokens_validos
              /\ (c.op = "generar_token" /\ c.token = t) => t \in tokens_validos'
              /\ (c.op = "eliminar_token" /\ c.token = t) => t \notin tokens_validos'
              /\ (t \in tokens_validos /\ ~(c.op = "eliminar_token" /\ c.token = t))
                 => t \in tokens_validos'
              /\ (t \notin tokens_validos /\ ~(c.op = "generar_token" /\ c.token = t))
                 => t \notin tokens_validos']_vars

\* a token among three valid ones was validated and is still valid
C13_Witness ==
    /\ req[1].op = "validar_token"
    /\ req[1].retorno = "True"
    /\ req[1].token \in tokens_validos
    /\ Cardinality(tokens_validos) = 3

\* C14: a step adds a token to tokens_validos only when it answers a POST
\* /compararCara with a recognized face.
C14_SoloPorReconocimiento ==
    [][tokens_validos' # tokens_validos
       => \E p \in Procs : PasoComparar(p) /\ req'[p].r = OK]_vars

Protegidas ==
    {"listarUsuarios", "getUsuario", "updateUsuario", "deleteUsuario",
     "servirImagen", "listarHistorial"}

\* C15: a step of a protected operation whose bearer token is not in
\* tokens_validos (missing header included) ends the request with 401 or 403
\* and changes neither the table nor the volume; with a token of the set the
\* request is not refused as unauthorized.
C15_SoloConTokenValido ==
    [][\A p \in Procs :
          (req'[p].op \in Protegidas /\ req'[p] # req[p])
          => IF req'[p].token \in tokens_validos
             THEN req'[p].r.status \notin {401, 403}
             ELSE /\ req'[p].pc = "done"
                  /\ req'[p].r.status \in {401, 403}
                  /\ UNCHANGED <<usuarios, nextId, archivos, nextUuid,
                                 tokens_validos>>]_vars

\* a DELETE of a stored identity with an unknown token was refused, a valid
\* token existing, and the identity and its file are still there
C15_Witness ==
    \E p \in Procs :
        /\ Terminado(p, "deleteUsuario")
        /\ req[p].token = TOKEN_FALSO
        /\ tokens_validos # {}
        /\ req[p].r.status = 401
        /\ Indice(req[p].usuario_id) # 0
        /\ ExisteArchivo(usuarios[Indice(req[p].usuario_id)].imagen)

\* C16: a POST /subirUsuario, a POST /compararCara or an authenticated PUT
\* /usuarios/{id} whose upload has a content type other than image/jpeg and
\* image/png ends at once with 400 "Tipo de archivo no permitido", without a
\* call of DeepFace.represent and without a change to the table, the volume
\* or the token set; a PUT without a valid token ends as in C15, equally
\* without either.
C16_TipoRechazadoPrimero ==
    [][\A p \in Procs :
          (/\ ~EnCurso(p) /\ req'[p] # req[p]
           /\ req'[p].op \in {"subirUsuario", "compararCara", "updateUsuario"}
           /\ req'[p].content_type \notin {"", "image/jpeg", "image/png"})
          => /\ req'[p].pc = "done"
             /\ req'[p].represent = 0
             /\ UNCHANGED <<usuarios, nextId, archivos, nextUuid, tokens_validos>>
             /\ (req'[p].op = "updateUsuario" => req'[p].token \in tokens_validos)
                => req'[p].r = Respuesta(400, "Tipo de archivo no permitido")]_vars

\* an authenticated PUT for a stored identity, with a new name and a
\* text/plain upload, was rejected and the name is not stored
C16_Witness ==
    \E p \in Procs :
        /\ Terminado(p, "updateUsuario")
        /\ req[p].content_type = "text/plain"
        /\ req[p].nombre # <<>>
        /\ req[p].r = Respuesta(400, "Tipo de archivo no permitido")
        /\ Indice(req[p].usuario_id) # 0
        /\ usuarios[Indice(req[p].usuario_id)].nombre # req[p].nombre

\* C17: every request that has ended has one row in the audit table.
C17_UnRegistroPorPeticion ==
    \A p \in Procs : req[p].pc = "done" => req[p].historial # ""

\* C18: the response a client receives is the handler's, whether or not the
\* audit table accepted the row.
C18_FalloHistorialNoAfecta ==
    \A p \in Procs : req[p].pc = "done" => req[p].enviado = req[p].r

\* a field of the PUT that the rules of the registration refuse
CampoInvalido(campo) ==
    campo # <<>> /\ (Strip(campo) = <<>> \/ Len(campo) > MaxLongitud)

\* C19: an authenticated PUT /usuarios/{id} for a stored identity, with a new
\* name or surname that is blank or longer than 100 characters, or a new
\* e-mail that is blank or ill-formed, is answered with a 400 and the table
\* is unchanged.
C19_UpdateValidaCampos ==
    [][\A p \in Procs :
          (/\ ~EnCurso(p) /\ req'[p] # req[p]
           /\ req'[p].op = "updateUsuario"
           /\ req'[p].token \in tokens_validos
           /\ Indice(req'[p].usuario_id) # 0
           /\ \/ CampoInvalido(req'[p].nombre)
              \/ CampoInvalido(req'[p].apellido)
              \/ req'[p].email # <<>>
                 /\ (Strip(req'[p].email) = <<>> \/ ~PatronEmail(req'[p].email)))
          => /\ req'[p].r.status = 400
             /\ usuarios' = usuarios]_vars

\* C20: the duplicate check of PUT /usuarios/{id} rejects the image with 409
\* exactly when its embedding is within the threshold of the stored
\* embedding of an identity other than usuario_id; otherwise the update goes
\* on, whatever the distance to the identity's own embedding.
C20_DuplicadoExcluyePropio ==
    [][\A p \in Procs :
          (/\ req[p].op = "updateUsuario" /\ req[p].pc = "validar_duplicado"
           /\ req'[p] # req[p])
          => IF \E i \in 1..Len(usuarios) :
                   /\ usuarios[i].id # req[p].usuario_id
                   /\ DistanciaMenorQueUmbral(req[p].embedding, usuarios[i].embedding)
             THEN req'[p].pc = "done" /\ req'[p].r = DUPLICATE_FACE
             ELSE req'[p].pc = "eliminar_anterior"]_vars

\* an image within the threshold of the identity's own embedding passed the
\* check, which compared it with the other stored identity
C20_Witness ==
    \E p \in Procs :
        /\ req[p].op = "updateUsuario" /\ req[p].pc = "eliminar_anterior"
        /\ Len(usuarios) = 2
        /\ Indice(req[p].usuario_id) # 0
        /\ DistanciaMenorQueUmbral(req[p].embedding,
                                   usuarios[Indice(req[p].usuario_id)].embedding)

\* the responses with which PUT /usuarios/{id} rejects the new image
RechazoImagen ==
    {Respuesta(400, "No se envio contenido de imagen"),
     Respuesta(400, "No se detecto ningun rostro"),
     DUPLICATE_FACE,
     Respuesta(500, "Error al guardar imagen en volumen")}

\* C21: with requests handled one after the other, when a PUT
\* /usuarios/{id} that carried an image has ended rejected at the image step
\* (no face, duplicate face, failure of the image store), the identity's row
\* is the row the request found: nombre, apellido and email included.
C21_RechazoSinCambios ==
    \A p \in Procs :
        (/\ Terminado(p, "updateUsuario") /\ req[p].content_type # ""
         /\ req[p].r \in RechazoImagen
         /\ req[p].antes # <<>>
         /\ Indice(req[p].usuario_id) # 0)
        => usuarios[Indice(req[p].usuario_id)] = req[p].antes

\* C22: when a PUT /usuarios/{id} with a new image and a DELETE
\* /usuarios/{id} of the same identity, handled concurrently, have both
\* ended, every file of the volume is the imagen of some row and the imagen
\* of every row is a file of the volume.
C22_SinHuerfanosTrasConcurrencia ==
    \A p, q \in Procs :
        (/\ Terminado(p, "updateUsuario") /\ req[p].content_type # ""
         /\ Terminado(q, "deleteUsuario")
         /\ req[p].usuario_id = req[q].usuario_id)
        => /\ \A a \in archivos :
                 \E i \in 1..Len(usuarios) : usuarios[i].imagen = a.ruta
           /\ \A i \in 1..Len(usuarios) : ExisteArchivo(usuarios[i].imagen)

\* C23: in every state of the registry and for every embedding e extracted
\* from an upload, POST /compararCara answers 200 and issues a token exactly
\* when validarRostroDuplicado raises 409 for e on that table, and the
\* duplicate check of POST /subirUsuario (fields valid) answers 409 exactly
\* when compararRostro returns a name for e on that table.
C23_ReconoceSiiDuplicado ==
    [][\A p \in Procs :
          /\ (PasoComparar(p) /\ req'[p].embedding # <<>>)
             => ((/\ req'[p].r = OK
                  /\ req'[p].token # <<>>
                  /\ req'[p].token \in tokens_validos')
                 <=> validarRostroDuplicado(usuarios, req'[p].embedding, 0))
          /\ (/\ req[p].op = "subirUsuario" /\ req[p].pc = "validar_duplicado"
              /\ req'[p] # req[p])
             => ((req'[p].pc = "done" /\ req'[p].r = DUPLICATE_FACE)
                 <=> compararRostro(usuarios, req[p].embedding).nombre # <<>>)]_vars

\* a query near a stored face without being identical to it was recognized,
\* on a table where registering it is a duplicate
C23_Witness ==
    \E p \in Procs :
        /\ Terminado(p, "compararCara") /\ req[p].r = OK
        /\ usuarios # <<>>
        /\ \A i \in 1..Len(usuarios) : usuarios[i].embedding # req[p].embedding
        /\ validarRostroDuplicado(usuarios, req[p].embedding, 0)

====
